---- MODULE Spec2Model ----
(***************************************************************************)
(* The key-value store of the Learning Observer (learning_observer/kvs.py) *)
(* and the start-up path of main.py that selects it.                       *)
(*                                                                         *)
(* Python values are records [t, n, s, items]; t is the Python type.       *)
(* A JSON text is the sequence of its lexical tokens, each token a string. *)
(***************************************************************************)
EXTENDS Integers, Sequences, FiniteSets, TLC

\* ------------------------------------------------------------------------
\* Bounds of the model
\* ------------------------------------------------------------------------

\* number of object identities the heap of the process can hold
MaxObj == 4

\* longest list or dict a caller grows a value to
MaxLen == 2

\* the duration of settings['kvs']['expiry'], in clock ticks
Expiry == 2

\* ------------------------------------------------------------------------
\* Python values
\* ------------------------------------------------------------------------

PyNone == [t |-> "none", n |-> 0, s |-> "", items |-> <<>>]

PyInt(n) == [t |-> "int", n |-> n, s |-> "", items |-> <<>>]

PyStr(s) == [t |-> "str", n |-> 0, s |-> s, items |-> <<>>]

PyList(items) == [t |-> "list", n |-> 0, s |-> "", items |-> items]

PyTuple(items) == [t |-> "tuple", n |-> 0, s |-> "", items |-> items]

\* a dict is the sequence of its entries in insertion order: <<k1, v1, k2, v2>>
PyDict(items) == [t |-> "dict", n |-> 0, s |-> "", items |-> items]

\* a Python set object: a value json.dumps does not accept
PySet(items) == [t |-> "set", n |-> 0, s |-> "", items |-> items]

\* the cell of a heap slot that holds no object
Free == [t |-> "free", n |-> 0, s |-> "", items |-> <<>>]

\* values made of the JSON types only: None, numbers, strings, lists and
\* dicts with string keys
RECURSIVE IsJsonValue(_)
IsJsonValue(v) ==
    CASE v.t \in {"none", "int", "str"} -> TRUE
      [] v.t = "list" -> \A i \in 1..Len(v.items) : IsJsonValue(v.items[i])
      [] v.t = "dict" ->
            \A i \in 1..Len(v.items) :
                IF i % 2 = 1 THEN v.items[i].t = "str" ELSE IsJsonValue(v.items[i])
      [] OTHER -> FALSE

\* Python's == on values: dicts compare as sets of entries, the rest by
\* type and content
DictEntries(v) == { <<v.items[2 * i - 1], v.items[2 * i]>> : i \in 1..(Len(v.items) \div 2) }

PyEq(a, b) ==
    IF a.t = "dict" /\ b.t = "dict" THEN DictEntries(a) = DictEntries(b) ELSE a = b

\* ------------------------------------------------------------------------
\* json.dumps and json.loads
\* ------------------------------------------------------------------------

IntText == [n \in 0..9 |-> CASE n = 0 -> "0" [] n = 1 -> "1" [] n = 2 -> "2"
                             [] n = 3 -> "3" [] n = 4 -> "4" [] n = 5 -> "5"
                             [] n = 6 -> "6" [] n = 7 -> "7" [] n = 8 -> "8"
                             [] OTHER -> "9"]

Quote(s) == "\"" \o s \o "\""

\* the strings a JSON string token can hold in this model
StrUniverse == {"a", "z", "hi", "yo", "null"} \cup { IntText[n] : n \in 0..9 }

\* json.dumps raises TypeError unless the value is made of the types the
\* encoder knows; dict keys must be str, int or None
RECURSIVE Serializable(_)
Serializable(v) ==
    CASE v.t \in {"none", "int", "str"} -> TRUE
      [] v.t \in {"list", "tuple"} ->
            \A i \in 1..Len(v.items) : Serializable(v.items[i])
      [] v.t = "dict" ->
            \A i \in 1..Len(v.items) :
                IF i % 2 = 1 THEN v.items[i].t \in {"str", "int", "none"}
                             ELSE Serializable(v.items[i])
      [] OTHER -> FALSE

\* the encoder turns a dict key into a JSON string
KeyText(k) ==
    CASE k.t = "str" -> Quote(k.s)
      [] k.t = "int" -> Quote(IntText[k.n])
      [] OTHER -> Quote("null")

RECURSIVE JsonDumps(_), DumpItems(_, _), DumpEntries(_, _)
JsonDumps(v) ==
    CASE v.t = "none" -> <<"null">>
      [] v.t = "int" -> <<IntText[v.n]>>
      [] v.t = "str" -> <<Quote(v.s)>>
      [] v.t \in {"list", "tuple"} -> <<"[">> \o DumpItems(v.items, 1) \o <<"]">>
      [] OTHER -> <<"{">> \o DumpEntries(v.items, 1) \o <<"}">>

DumpItems(items, i) ==
    IF i > Len(items) THEN <<>>
    ELSE (IF i > 1 THEN <<",">> ELSE <<>>) \o JsonDumps(items[i]) \o DumpItems(items, i + 1)

DumpEntries(items, i) ==
    IF i > Len(items) THEN <<>>
    ELSE (IF i > 1 THEN <<",">> ELSE <<>>)
         \o <<KeyText(items[i]), ":">> \o JsonDumps(items[i + 1])
         \o DumpEntries(items, i + 2)

IsIntToken(tok) == \E n \in 0..9 : IntText[n] = tok

IsStrToken(tok) == \E s \in StrUniverse : Quote(s) = tok

\* the result of a parse: the value read and the position after it;
\* ok = FALSE is json.JSONDecodeError
ParseError == [ok |-> FALSE, v |-> PyNone, next |-> 0]

\* a dict keeps one entry per key: a repeated key overwrites the value
RECURSIVE PutEntry(_, _, _, _)
PutEntry(items, k, v, i) ==
    IF i > Len(items) THEN items \o <<k, v>>
    ELSE IF items[i] = k THEN [items EXCEPT ![i + 1] = v]
    ELSE PutEntry(items, k, v, i + 2)

RECURSIVE ParseValue(_, _), ParseItems(_, _, _), ParseEntries(_, _, _)
ParseValue(toks, i) ==
    IF i > Len(toks) THEN ParseError
    ELSE LET tok == toks[i] IN
         CASE tok = "null" -> [ok |-> TRUE, v |-> PyNone, next |-> i + 1]
           [] IsIntToken(tok) ->
                [ok |-> TRUE, v |-> PyInt(CHOOSE n \in 0..9 : IntText[n] = tok),
                 next |-> i + 1]
           [] IsStrToken(tok) ->
                [ok |-> TRUE, v |-> PyStr(CHOOSE s \in StrUniverse : Quote(s) = tok),
                 next |-> i + 1]
           [] tok = "[" ->
                IF i + 1 <= Len(toks) /\ toks[i + 1] = "]"
                THEN [ok |-> TRUE, v |-> PyList(<<>>), next |-> i + 2]
                ELSE ParseItems(toks, i + 1, <<>>)
           [] tok = "{" ->
                IF i + 1 <= Len(toks) /\ toks[i + 1] = "}"
                THEN [ok |-> TRUE, v |-> PyDict(<<>>), next |-> i + 2]
                ELSE ParseEntries(toks, i + 1, <<>>)
           [] OTHER -> ParseError

ParseItems(toks, i, acc) ==
    LET r == ParseValue(toks, i) IN
    IF ~r.ok \/ r.next > Len(toks) THEN ParseError
    ELSE IF toks[r.next] = "]"
         THEN [ok |-> TRUE, v |-> PyList(Append(acc, r.v)), next |-> r.next + 1]
    ELSE IF toks[r.next] = ","
         THEN ParseItems(toks, r.next + 1, Append(acc, r.v))
    ELSE ParseError

ParseEntries(toks, i, acc) ==
    IF i + 1 > Len(toks) \/ ~IsStrToken(toks[i]) \/ toks[i + 1] # ":" THEN ParseError
    ELSE LET k == PyStr(CHOOSE s \in StrUniverse : Quote(s) = toks[i])
             r == ParseValue(toks, i + 2) IN
         IF ~r.ok \/ r.next > Len(toks) THEN ParseError
         ELSE IF toks[r.next] = "}"
              THEN [ok |-> TRUE, v |-> PyDict(PutEntry(acc, k, r.v, 1)), next |-> r.next + 1]
         ELSE IF toks[r.next] = ","
              THEN ParseEntries(toks, r.next + 1, PutEntry(acc, k, r.v, 1))
         ELSE ParseError

\* json.loads: the whole text must be one value
JsonLoads(toks) ==
    LET r == ParseValue(toks, 1) IN
    IF r.ok /\ r.next = Len(toks) + 1 THEN r ELSE ParseError


\* ------------------------------------------------------------------------
\* State
\* ------------------------------------------------------------------------

VARIABLES
    settings,       \* learning_observer.settings.settings, as last loaded
    KVS,            \* kvs.py: the module global KVS, the current backend class
    OBJECT_STORE,   \* kvs.py: the dict object the module global is bound to
    tables,         \* the dict objects: each a sequence of [key, ref] entries
    heap,           \* the value objects of the process: identity -> content
    inst,           \* the backend instances constructed so far
    redis,          \* the remote store: key -> [text, ttl]
    connected,      \* learning_observer.redis: connect() has been called
    arg,            \* caller: the object it built to pass to set (0: none)
    res,            \* caller: the object the last get returned (0: none)
    ret,            \* outcome of the last operation
    wrote,          \* history: per key, the last set that succeeded
    pc,             \* main.py: the statement of create_app to run next
    ran,            \* the statements of create_app run so far in this call
    lastCheck,      \* history: the last run of kvs_startup_check
    everOk,         \* history: some run of kvs_startup_check has succeeded
    task,           \* kvs.py: the call of dump or load in progress
    file,           \* the JSON document the last dump wrote
    up,             \* the Redis server can be reached
    pool,           \* learning_observer.redis: the connection of the process
    flight,         \* the operations of _RedisKVS suspended at an await
    port,           \* main.py: the module global port
    runmode,        \* main.py: the module global runmode
    wd              \* main.py: the watchdog mode, its observer, the last event

\* the globals of main.py the store never writes
mainVars == <<port, runmode, wd>>

appVars == <<pc, ran, lastCheck, everOk, port, runmode, wd>>

bulkVars == <<task, file>>

netVars == <<up, pool, flight>>

vars == <<settings, KVS, OBJECT_STORE, tables, heap, inst, redis, connected,
          arg, res, ret, wrote, pc, ran, lastCheck, everOk, task, file, up,
          pool, flight, port, runmode, wd>>

ObjIds == 1..MaxObj

DictIds == {0, 1}

\* the backend instances of a run: two, as mk1 and mk2 of test()
InstIds == {1, 2}

StrKeys == {PyStr("hi"), PyStr("yo")}

\* the keys a caller passes: strings, and an int as the non-string key
KeyArgs == StrKeys \cup {PyInt(1)}

\* expire=None
NoExpire == 0 - 1

NoInst == [cls |-> "None", expire |-> NoExpire, born |-> 0]

NoEntry == [text |-> <<>>, ttl |-> NoExpire]

NoWrite == [done |-> FALSE, by |-> 0, ref |-> 0, val |-> PyNone, age |-> 0, expire |-> NoExpire]

Outcome(op, who, key, exc, val) ==
    [op |-> op, who |-> who, key |-> key, exc |-> exc, val |-> val]

\* ret while no operation of the store has just returned
Idle == Outcome("none", 0, PyNone, "none", PyNone)

\* the operations of _RedisKVS that can be in progress at once
FlightIds == {1, 2}

\* no operation is in progress in this slot
NoFlight == [op |-> "none", who |-> 0, key |-> PyNone, at |-> "idle", conn |-> 0,
             conc |-> FALSE]

\* port = None
NoPort == "None"

\* runmode = None
NoMode == "None"

\* args.watchdog is None: no observer, no event
NoWatch == [mode |-> "None", handler |-> "None", event |-> "none", calls |-> <<>>, exc |-> "none"]

\* ------------------------------------------------------------------------
\* dict objects (insertion ordered) and the heap
\* ------------------------------------------------------------------------

\* dict.get(key, 0): the reference stored under key, 0 when the key is absent
DictGet(d, k) ==
    IF \E i \in 1..Len(d) : d[i].key = k
    THEN d[CHOOSE i \in 1..Len(d) : d[i].key = k].ref
    ELSE 0

\* the bug of a table that gets a new entry at every assignment
DictSetAppend(d, k, r) == Append(d, [key |-> k, ref |-> r])

\* d[key] = ref: overwrite in place, or append a new entry
DictSet(d, k, r) ==
    IF \E i \in 1..Len(d) : d[i].key = k
    THEN [d EXCEPT ![CHOOSE i \in 1..Len(d) : d[i].key = k].ref = r]
    ELSE Append(d, [key |-> k, ref |-> r])

\* list(d.keys())
DictKeys(d) == [i \in 1..Len(d) |-> d[i].key]

\* an object that cannot be changed in place: deepcopy returns it as it is
Immutable(v) ==
    \/ v.t \in {"none", "int", "str"}
    \/ v.t = "tuple" /\ \A i \in 1..Len(v.items) : v.items[i].t \in {"none", "int", "str"}

HasFree(h) == \E o \in ObjIds : h[o] = Free

NewRef(h) == CHOOSE o \in ObjIds : h[o] = Free /\ \A p \in ObjIds : h[p] = Free => o <= p

\* the objects some dict entry refers to
Refs(tabs) == UNION { { tabs[d][i].ref : i \in 1..Len(tabs[d]) } : d \in DictIds }

\* reference counting: an object that no dict entry and no variable of the
\* caller refers to is destroyed
Collect(h, tabs, a, r) ==
    [o \in ObjIds |-> IF o \in Refs(tabs) \cup {a, r} THEN h[o] ELSE Free]

\* ------------------------------------------------------------------------
\* The caller
\* ------------------------------------------------------------------------

\* the caller builds a value to store
CallerNew(v) ==
    /\ LET h == Collect(heap, tables, 0, res) IN
       /\ HasFree(h)
       /\ arg' = NewRef(h)
       /\ heap' = [h EXCEPT ![NewRef(h)] = v]
    /\ ret' = Idle
    /\ UNCHANGED <<settings, KVS, OBJECT_STORE, tables, inst, redis, connected, res, wrote, appVars, bulkVars, netVars>>

\* what the caller does to a list or dict it holds: append 2, or d["z"] = 2
Mutated(v) ==
    IF v.t = "list" THEN PyList(Append(v.items, PyInt(2)))
    ELSE PyDict(PutEntry(v.items, PyStr("z"), PyInt(2), 1))

CanMutate(v) ==
    \/ v.t = "list" /\ Len(v.items) < MaxLen
    \/ /\ v.t = "dict"
       /\ Len(v.items) < 2 * MaxLen
       /\ \A i \in 1..Len(v.items) : v.items[i] # PyStr("z")

\* the caller changes, in place, the object the last get returned
MutateRes ==
    /\ res # 0
    /\ CanMutate(heap[res])
    /\ heap' = [heap EXCEPT ![res] = Mutated(@)]
    /\ ret' = Idle
    /\ UNCHANGED <<settings, KVS, OBJECT_STORE, tables, inst, redis, connected, arg, res, wrote, appVars, bulkVars, netVars>>

\* the caller changes, in place, the object it passed to set
MutateArg ==
    /\ arg # 0
    /\ CanMutate(heap[arg])
    /\ heap' = [heap EXCEPT ![arg] = Mutated(@)]
    /\ ret' = Idle
    /\ UNCHANGED <<settings, KVS, OBJECT_STORE, tables, inst, redis, connected, arg, res, wrote, appVars, bulkVars, netVars>>

\* ------------------------------------------------------------------------
\* The backend classes
\* ------------------------------------------------------------------------

\* the value of self.expire the constructor of each class sets
ExpireOf(cls) == IF cls = "EphemeralRedisKVS" THEN settings.expiry ELSE NoExpire

\* KVS(): an instance of the current backend class
NewInst(i) ==
    /\ KVS # "None"
    /\ inst[i] = NoInst
    /\ \A j \in InstIds : j < i => inst[j] # NoInst
    /\ inst' = [inst EXCEPT ![i] = [cls |-> KVS, expire |-> ExpireOf(KVS), born |-> OBJECT_STORE]]
    /\ ret' = Idle
    /\ UNCHANGED <<settings, KVS, OBJECT_STORE, tables, heap, redis, connected, arg, res, wrote, appVars, bulkVars, netVars>>

\* ------------------------------------------------------------------------
\* InMemoryKVS
\* ------------------------------------------------------------------------

\* the bug of binding the table once, in the constructor
StoreOfCaptured(i) == inst[i].born

\* the methods name the module global OBJECT_STORE each time they run
StoreOf(i) == OBJECT_STORE

\* the bug of returning the stored object itself
NoCopy(h, r) == [ref |-> r, heap |-> h]

\* copy.deepcopy(obj)
DeepCopy(h, r) ==
    IF Immutable(h[r]) THEN [ref |-> r, heap |-> h]
    ELSE [ref |-> NewRef(h), heap |-> [h EXCEPT ![NewRef(h)] = h[r]]]

\* the bug of reading with OBJECT_STORE[key], which raises on a missing key
MemGetStrict(i, key) ==
    /\ inst[i].cls = "InMemoryKVS"
    /\ LET r == DictGet(tables[StoreOf(i)], key)
           h == Collect(heap, tables, arg, 0) IN
       IF r = 0
       THEN /\ res' = res
            /\ heap' = heap
            /\ ret' = Outcome("get", i, key, "KeyError", PyNone)
       ELSE /\ Immutable(h[r]) \/ HasFree(h)
            /\ res' = DeepCopy(h, r).ref
            /\ heap' = DeepCopy(h, r).heap
            /\ ret' = Outcome("get", i, key, "none", h[r])
    /\ UNCHANGED <<settings, KVS, OBJECT_STORE, tables, inst, redis, connected, arg, wrote, appVars, bulkVars, netVars>>

\* await kvs[key]
MemGet(i, key) ==
    /\ inst[i].cls = "InMemoryKVS"
    /\ LET r == DictGet(tables[StoreOf(i)], key) IN
       IF r = 0
       THEN /\ res' = 0
            /\ heap' = Collect(heap, tables, arg, 0)
            /\ ret' = Outcome("get", i, key, "none", PyNone)
       ELSE LET h == Collect(heap, tables, arg, 0)
                c == DeepCopy(h, r) IN
            /\ Immutable(h[r]) \/ HasFree(h)
            /\ res' = c.ref
            /\ heap' = c.heap
            /\ ret' = Outcome("get", i, key, "none", c.heap[c.ref])
    /\ UNCHANGED <<settings, KVS, OBJECT_STORE, tables, inst, redis, connected, arg, wrote, appVars, bulkVars, netVars>>

\* the bug of storing first and validating afterwards
MemSetUnchecked(i, key) ==
    /\ inst[i].cls = "InMemoryKVS"
    /\ arg # 0
    /\ LET tabs == [tables EXCEPT ![StoreOf(i)] = DictSet(@, key, arg)] IN
       /\ tables' = tabs
       /\ heap' = Collect(heap, tabs, arg, res)
    /\ IF ~Serializable(heap[arg])
       THEN ret' = Outcome("set", i, key, "TypeError", PyNone) /\ wrote' = wrote
       ELSE IF key.t # "str"
       THEN ret' = Outcome("set", i, key, "AssertionError", PyNone) /\ wrote' = wrote
       ELSE /\ ret' = Outcome("set", i, key, "none", PyNone)
            /\ wrote' = [wrote EXCEPT ![key] =
                            [done |-> TRUE, by |-> i, ref |-> arg, val |-> heap[arg],
                             age |-> 0, expire |-> NoExpire]]
    /\ UNCHANGED <<settings, KVS, OBJECT_STORE, inst, redis, connected, arg, res, appVars, bulkVars, netVars>>

\* await kvs.set(key, value), the value being the caller's object arg
MemSet(i, key) ==
    /\ inst[i].cls = "InMemoryKVS"
    /\ arg # 0
    /\ IF ~Serializable(heap[arg])
       THEN /\ ret' = Outcome("set", i, key, "TypeError", PyNone)
            /\ UNCHANGED <<tables, heap, wrote>>
       ELSE IF key.t # "str"
       THEN /\ ret' = Outcome("set", i, key, "AssertionError", PyNone)
            /\ UNCHANGED <<tables, heap, wrote>>
       ELSE LET tabs == [tables EXCEPT ![StoreOf(i)] = DictSet(@, key, arg)] IN
            /\ tables' = tabs
            /\ heap' = Collect(heap, tabs, arg, res)
            /\ wrote' = [wrote EXCEPT ![key] =
                            [done |-> TRUE, by |-> i, ref |-> arg, val |-> heap[arg], age |-> 0,
                             expire |-> NoExpire]]
            /\ ret' = Outcome("set", i, key, "none", PyNone)
    /\ UNCHANGED <<settings, KVS, OBJECT_STORE, inst, redis, connected, arg, res, appVars, bulkVars, netVars>>

\* await kvs.keys()
MemKeys(i) ==
    /\ inst[i].cls = "InMemoryKVS"
    /\ ret' = Outcome("keys", i, PyNone, "none", PyList(DictKeys(tables[StoreOf(i)])))
    /\ UNCHANGED <<settings, KVS, OBJECT_STORE, tables, heap, inst, redis, connected, arg, res, wrote, appVars, bulkVars, netVars>>

\* the bug of a clear without the global statement: it binds a local name
MemClearLocal(i) ==
    /\ inst[i].cls = "InMemoryKVS"
    /\ wrote' = [k \in StrKeys |-> NoWrite]
    /\ ret' = Outcome("clear", i, PyNone, "none", PyNone)
    /\ UNCHANGED <<settings, KVS, OBJECT_STORE, tables, heap, inst, redis, connected, arg, res,
                   appVars, bulkVars, netVars>>

\* await kvs.clear(): the global is bound to a new, empty dict; the old dict
\* is destroyed
MemClear(i) ==
    /\ inst[i].cls = "InMemoryKVS"
    /\ OBJECT_STORE' = 1 - OBJECT_STORE
    /\ tables' = [d \in DictIds |-> <<>>]
    /\ heap' = Collect(heap, [d \in DictIds |-> <<>>], arg, res)
    /\ wrote' = [k \in StrKeys |-> NoWrite]
    /\ ret' = Outcome("clear", i, PyNone, "none", PyNone)
    /\ UNCHANGED <<settings, KVS, inst, redis, connected, arg, res, appVars, bulkVars, netVars>>

\* ------------------------------------------------------------------------
\* The connection and the network
\* ------------------------------------------------------------------------

\* no connection has been made
NoConn == [handle |-> 0, made |-> 0]

\* the bug of a connect that opens a connection on every call
RedisConnectAlways(p) == [handle |-> p.made + 1, made |-> p.made + 1]

\* learning_observer.redis.connect(): opens the connection of the process
\* unless there is one
RedisConnect(p) ==
    IF p.handle = 0 THEN [handle |-> p.made + 1, made |-> p.made + 1] ELSE p

IsRedis(i) == inst[i].cls \in {"EphemeralRedisKVS", "PersistentRedisKVS"}

\* an operation of _RedisKVS that runs from its call to its return with no
\* step of another task in between: its connect() completes within the step
Direct ==
    /\ pool' = IF up THEN RedisConnect(pool) ELSE pool
    /\ flight' = flight

\* the server, or the network to it, goes down
NetDown ==
    /\ KVS \in {"EphemeralRedisKVS", "PersistentRedisKVS"}
    /\ up
    /\ up' = FALSE
    /\ ret' = Idle
    /\ UNCHANGED <<settings, KVS, OBJECT_STORE, tables, heap, inst, redis, connected, arg, res,
                   wrote, appVars, bulkVars, pool, flight>>

NetUp ==
    /\ ~up
    /\ up' = TRUE
    /\ ret' = Idle
    /\ UNCHANGED <<settings, KVS, OBJECT_STORE, tables, heap, inst, redis, connected, arg, res,
                   wrote, appVars, bulkVars, pool, flight>>

\* ------------------------------------------------------------------------
\* _RedisKVS, EphemeralRedisKVS, PersistentRedisKVS
\* ------------------------------------------------------------------------

\* connection.set(key, text, expire=...): SET key text [EX expire]
RemoteSet(db, k, text, expire) == [db EXCEPT ![k] = [text |-> text, ttl |-> expire]]

\* the keys the server holds, in the order its scan yields them
RemoteKeys(db) ==
    (IF db[PyStr("hi")] # NoEntry THEN <<PyStr("hi")>> ELSE <<>>)
    \o (IF db[PyStr("yo")] # NoEntry THEN <<PyStr("yo")>> ELSE <<>>)

\* the bug of a get that swallows what goes wrong and returns None
RedisGetLenient(i, key) ==
    /\ inst[i].cls \in {"EphemeralRedisKVS", "PersistentRedisKVS"}
    /\ connected' = TRUE
    /\ LET item == redis[key]
           h == Collect(heap, tables, arg, 0) IN
       IF ~up \/ item = NoEntry \/ ~JsonLoads(item.text).ok
       THEN /\ res' = 0
            /\ heap' = h
            /\ ret' = Outcome("get", i, key, "none", PyNone)
       ELSE /\ HasFree(h)
            /\ res' = NewRef(h)
            /\ heap' = [h EXCEPT ![NewRef(h)] = JsonLoads(item.text).v]
            /\ ret' = Outcome("get", i, key, "none", JsonLoads(item.text).v)
    /\ UNCHANGED <<settings, KVS, OBJECT_STORE, tables, inst, redis, arg, wrote, appVars, bulkVars, up>>

\* await kvs[key]. The operations of _RedisKVS say what the call does to the
\* store and what it returns; the connection it uses and the place where it
\* is suspended are said by Direct, or by the steps of a flight. An
\* unreachable server makes connect(), or the remote command, raise
RedisGet(i, key) ==
    /\ inst[i].cls \in {"EphemeralRedisKVS", "PersistentRedisKVS"}
    /\ connected' = TRUE
    /\ LET item == redis[key]
           h == Collect(heap, tables, arg, 0) IN
       IF ~up
       THEN /\ res' = 0
            /\ heap' = h
            /\ ret' = Outcome("get", i, key, "ConnectionError", PyNone)
       ELSE IF item = NoEntry
       THEN /\ res' = 0
            /\ heap' = h
            /\ ret' = Outcome("get", i, key, "none", PyNone)
       ELSE LET r == JsonLoads(item.text) IN
            IF ~r.ok
            THEN /\ res' = 0
                 /\ heap' = h
                 /\ ret' = Outcome("get", i, key, "JSONDecodeError", PyNone)
            ELSE /\ HasFree(h)
                 /\ res' = NewRef(h)
                 /\ heap' = [h EXCEPT ![NewRef(h)] = r.v]
                 /\ ret' = Outcome("get", i, key, "none", r.v)
    /\ UNCHANGED <<settings, KVS, OBJECT_STORE, tables, inst, redis, arg, wrote, appVars, bulkVars, up>>

\* await kvs.set(key, value), the value being the caller's object arg: the
\* connect() comes first and raises when there is no connection yet and the
\* server cannot be reached; the remote command comes last
RedisSet(i, key) ==
    /\ inst[i].cls \in {"EphemeralRedisKVS", "PersistentRedisKVS"}
    /\ arg # 0
    /\ connected' = TRUE
    /\ IF ~up /\ pool.handle = 0
       THEN /\ ret' = Outcome("set", i, key, "ConnectionError", PyNone)
            /\ UNCHANGED <<redis, wrote>>
       ELSE IF ~Serializable(heap[arg])
       THEN /\ ret' = Outcome("set", i, key, "TypeError", PyNone)
            /\ UNCHANGED <<redis, wrote>>
       ELSE IF key.t # "str"
       THEN /\ ret' = Outcome("set", i, key, "AssertionError", PyNone)
            /\ UNCHANGED <<redis, wrote>>
       ELSE IF ~up
       THEN /\ ret' = Outcome("set", i, key, "ConnectionError", PyNone)
            /\ UNCHANGED <<redis, wrote>>
       ELSE /\ redis' = RemoteSet(redis, key, JsonDumps(heap[arg]), inst[i].expire)
            /\ wrote' = [wrote EXCEPT ![key] =
                            [done |-> TRUE, by |-> i, ref |-> arg, val |-> heap[arg], age |-> 0,
                             expire |-> inst[i].expire]]
            /\ ret' = Outcome("set", i, key, "none", PyNone)
    /\ UNCHANGED <<settings, KVS, OBJECT_STORE, tables, heap, inst, arg, res, appVars, bulkVars, up>>

\* await kvs.keys()
RedisKeys(i) ==
    /\ inst[i].cls \in {"EphemeralRedisKVS", "PersistentRedisKVS"}
    /\ connected' = TRUE
    /\ ret' = IF up THEN Outcome("keys", i, PyNone, "none", PyList(RemoteKeys(redis)))
              ELSE Outcome("keys", i, PyNone, "ConnectionError", PyNone)
    /\ UNCHANGED <<settings, KVS, OBJECT_STORE, tables, heap, inst, redis, arg, res, wrote, appVars, bulkVars, up>>

\* the operations as coroutines. A flight is a call of get, set or keys in
\* progress: at "connect" it is suspended in await self.connect(), at
\* "command" the connect has returned and the rest of the method is to run.
\* flight.conc is history: another flight was suspended in connect when this
\* one called it

\* the bug of an operation that goes to its remote command without connect()
OpCallNoConnect(f, op, i, key) ==
    /\ IsRedis(i)
    /\ flight[f] = NoFlight
    /\ op = "set" => arg # 0
    /\ flight' = [flight EXCEPT ![f] = [op |-> op, who |-> i, key |-> key, at |-> "command",
                                       conn |-> pool.handle, conc |-> FALSE]]
    /\ ret' = Idle
    /\ UNCHANGED <<settings, KVS, OBJECT_STORE, tables, heap, inst, redis, connected, arg, res,
                   wrote, appVars, bulkVars, up, pool>>

\* the call of an operation, up to its first await: await self.connect()
OpCall(f, op, i, key) ==
    /\ IsRedis(i)
    /\ flight[f] = NoFlight
    /\ op = "set" => arg # 0
    /\ connected' = TRUE
    /\ flight' = [flight EXCEPT ![f] =
                     [op |-> op, who |-> i, key |-> key, at |-> "connect", conn |-> 0,
                      conc |-> \E g \in FlightIds : flight[g].at = "connect"]]
    /\ ret' = Idle
    /\ UNCHANGED <<settings, KVS, OBJECT_STORE, tables, heap, inst, redis, arg, res, wrote,
                   appVars, bulkVars, up, pool>>

\* learning_observer.redis.connect() returns to the flight, or raises when
\* there is no connection yet and the server cannot be reached; then
\* connection = await learning_observer.redis.connection()
ConnectDone(f) ==
    /\ flight[f].at = "connect"
    /\ IF pool.handle = 0 /\ ~up
       THEN /\ flight' = [flight EXCEPT ![f] = NoFlight]
            /\ pool' = pool
            /\ ret' = Outcome(flight[f].op, flight[f].who, flight[f].key, "ConnectionError", PyNone)
       ELSE /\ pool' = RedisConnect(pool)
            /\ flight' = [flight EXCEPT ![f].at = "command", ![f].conn = RedisConnect(pool).handle]
            /\ ret' = Idle
    /\ UNCHANGED <<settings, KVS, OBJECT_STORE, tables, heap, inst, redis, connected, arg, res,
                   wrote, appVars, bulkVars, up>>

\* the rest of the method: its remote command and its return
OpCommand(f) ==
    /\ flight[f].at = "command"
    /\ \/ flight[f].op = "get" /\ RedisGet(flight[f].who, flight[f].key)
       \/ flight[f].op = "set" /\ RedisSet(flight[f].who, flight[f].key)
       \/ flight[f].op = "keys" /\ RedisKeys(flight[f].who)
    /\ flight' = [flight EXCEPT ![f] = NoFlight]
    /\ pool' = pool

\* a string that is not a JSON text
BadText == <<"{">>

\* another client of the server stores a string that is not JSON
ForeignSet(k) ==
    /\ KVS \in {"EphemeralRedisKVS", "PersistentRedisKVS"}
    /\ redis[k].text # BadText
    /\ redis' = RemoteSet(redis, k, BadText, NoExpire)
    /\ ret' = Idle
    /\ UNCHANGED <<settings, KVS, OBJECT_STORE, tables, heap, inst, connected, arg, res, wrote,
                   appVars, bulkVars, netVars>>

\* await kvs.clear() on an instance of a Redis-backed class: the classes
\* define no clear, so the attribute lookup raises
RedisClear(i) ==
    /\ inst[i].cls \in {"EphemeralRedisKVS", "PersistentRedisKVS"}
    /\ ret' = Outcome("clear", i, PyNone, "AttributeError", PyNone)
    /\ UNCHANGED <<settings, KVS, OBJECT_STORE, tables, heap, inst, redis, connected, arg, res,
                   wrote, appVars, bulkVars, netVars>>

\* one unit of time passes: the server drops the entries whose time to live
\* has run out
Tick ==
    /\ redis' = [k \in StrKeys |->
                    IF redis[k].ttl = NoExpire THEN redis[k]
                    ELSE IF redis[k].ttl <= 1 THEN NoEntry
                    ELSE [redis[k] EXCEPT !.ttl = @ - 1]]
    /\ wrote' = [k \in StrKeys |->
                    IF wrote[k].done /\ wrote[k].expire # NoExpire /\ wrote[k].age < wrote[k].expire
                    THEN [wrote[k] EXCEPT !.age = @ + 1]
                    ELSE wrote[k]]
    /\ ret' = Idle
    /\ UNCHANGED <<settings, KVS, OBJECT_STORE, tables, heap, inst, connected, arg, res, appVars, bulkVars, netVars>>

\* ------------------------------------------------------------------------
\* _KVS.dump and _KVS.load
\* ------------------------------------------------------------------------

\* no document
NoText == <<>>

\* file.text is the document of the last dump that no load has read yet: a
\* caller loads a document once. file.alone is history: the dump that wrote it
\* ran with no step of another task between its steps
NoFile == [text |-> NoText, alone |-> FALSE]

\* no call of dump or load is suspended. task.alone and task.orig are history
NoTask == [op |-> "none", who |-> 0, keys |-> <<>>, data |-> <<>>, at |-> 0,
           toFile |-> FALSE, alone |-> FALSE, orig |-> PyNone]

\* ret.op of the steps of a dump and of a load that leave the call suspended
DumpSteps == {"dump.keys", "dump.get"}

LoadSteps == {"load.open", "load.set"}

\* await self.keys() as dump calls it
SelfKeys(i) ==
    IF ~IsRedis(i) THEN [exc |-> "none", keys |-> DictKeys(tables[StoreOf(i)])]
    ELSE IF ~up THEN [exc |-> "ConnectionError", keys |-> <<>>]
    ELSE [exc |-> "none", keys |-> RemoteKeys(redis)]

\* await self[key] as dump calls it: the value of the copy it gets
SelfGet(i, key) ==
    IF ~IsRedis(i)
    THEN LET r == DictGet(tables[StoreOf(i)], key) IN
         [exc |-> "none", val |-> IF r = 0 THEN PyNone ELSE heap[r]]
    ELSE IF ~up THEN [exc |-> "ConnectionError", val |-> PyNone]
    ELSE IF redis[key] = NoEntry THEN [exc |-> "none", val |-> PyNone]
    ELSE LET r == JsonLoads(redis[key].text) IN
         IF r.ok THEN [exc |-> "none", val |-> r.v]
         ELSE [exc |-> "JSONDecodeError", val |-> PyNone]

\* the loop of dump over keys from position n on, run without a suspension
RECURSIVE ReadAll(_, _, _, _)
ReadAll(i, keys, n, data) ==
    IF n > Len(keys) THEN data
    ELSE ReadAll(i, keys, n + 1, PutEntry(data, keys[n], SelfGet(i, keys[n]).val, 1))

\* if filename: json.dump(data, f, indent=4); return data. The outcome of the
\* end of dump: the exception, the document written and the mapping returned
DumpEnd(data, toFile) ==
    IF toFile /\ ~Serializable(PyDict(data))
    THEN [exc |-> "TypeError", text |-> NoText, val |-> PyNone]
    ELSE [exc |-> "none",
          text |-> IF toFile THEN JsonDumps(PyDict(data)) ELSE NoText,
          val |-> PyDict(data)]

\* what the end of a dump leaves in file
FileAfter(end, toFile, alone) ==
    IF toFile /\ end.exc = "none"
    THEN [text |-> end.text, alone |-> alone]
    ELSE [file EXCEPT !.alone = FALSE]

\* await kvs.dump(filename) on the in-memory backend: its methods never
\* suspend, so the whole call is one step
MemDump(i, toFile) ==
    /\ inst[i].cls = "InMemoryKVS"
    /\ task.op = "none"
    /\ LET keys == SelfKeys(i).keys
           data == ReadAll(i, keys, 1, <<>>)
           end == DumpEnd(data, toFile) IN
       /\ file' = FileAfter(end, toFile, TRUE)
       /\ ret' = Outcome("dump", i, PyNone, end.exc, end.val)
    /\ UNCHANGED <<settings, KVS, OBJECT_STORE, tables, heap, inst, redis, connected, arg, res,
                   wrote, appVars, task, netVars>>

\* await kvs.dump(filename) on a Redis backend, up to the return of keys():
\* data = {}; for key in await self.keys()
DumpKeys(i, toFile) ==
    /\ IsRedis(i)
    /\ task.op = "none"
    /\ connected' = TRUE
    /\ pool' = IF up THEN RedisConnect(pool) ELSE pool
    /\ LET r == SelfKeys(i)
           end == DumpEnd(<<>>, toFile) IN
       IF r.exc # "none"
       THEN /\ task' = NoTask
            /\ file' = file
            /\ ret' = Outcome("dump", i, PyNone, r.exc, PyNone)
       ELSE IF r.keys = <<>>
       THEN /\ task' = NoTask
            /\ file' = FileAfter(end, toFile, TRUE)
            /\ ret' = Outcome("dump", i, PyNone, end.exc, end.val)
       ELSE /\ task' = [NoTask EXCEPT !.op = "dump", !.who = i, !.keys = r.keys,
                                      !.toFile = toFile, !.alone = TRUE]
            /\ file' = file
            /\ ret' = Outcome("dump.keys", i, PyNone, "none", PyList(r.keys))
    /\ UNCHANGED <<settings, KVS, OBJECT_STORE, tables, heap, inst, redis, arg, res, wrote,
                   appVars, up, flight>>

\* the bug of a dump that leaves out a key it finds gone
DumpReadSkipAbsent ==
    /\ task.op = "dump"
    /\ connected' = TRUE
    /\ pool' = IF up THEN RedisConnect(pool) ELSE pool
    /\ LET i == task.who
           key == task.keys[task.at + 1]
           r == SelfGet(i, key)
           data == IF r.val = PyNone THEN task.data ELSE PutEntry(task.data, key, r.val, 1)
           alone == task.alone /\ ret.op \in DumpSteps
           end == DumpEnd(data, task.toFile) IN
       IF r.exc # "none"
       THEN /\ task' = NoTask
            /\ file' = file
            /\ ret' = Outcome("dump", i, key, r.exc, PyNone)
       ELSE IF task.at + 1 = Len(task.keys)
       THEN /\ task' = NoTask
            /\ file' = FileAfter(end, task.toFile, alone)
            /\ ret' = Outcome("dump", i, PyNone, end.exc, end.val)
       ELSE /\ task' = [task EXCEPT !.data = data, !.at = @ + 1, !.alone = alone]
            /\ file' = file
            /\ ret' = Outcome("dump.get", i, key, "none", r.val)
    /\ UNCHANGED <<settings, KVS, OBJECT_STORE, tables, heap, inst, redis, arg, res, wrote,
                   appVars, up, flight>>

\* the next round of the loop of dump on a Redis backend: data[key] = await
\* self[key]; after the last key, the end of dump
DumpRead ==
    /\ task.op = "dump"
    /\ connected' = TRUE
    /\ pool' = IF up THEN RedisConnect(pool) ELSE pool
    /\ LET i == task.who
           key == task.keys[task.at + 1]
           r == SelfGet(i, key)
           data == PutEntry(task.data, key, r.val, 1)
           alone == task.alone /\ ret.op \in DumpSteps
           end == DumpEnd(data, task.toFile) IN
       IF r.exc # "none"
       THEN /\ task' = NoTask
            /\ file' = file
            /\ ret' = Outcome("dump", i, key, r.exc, PyNone)
       ELSE IF task.at + 1 = Len(task.keys)
       THEN /\ task' = NoTask
            /\ file' = FileAfter(end, task.toFile, alone)
            /\ ret' = Outcome("dump", i, PyNone, end.exc, end.val)
       ELSE /\ task' = [task EXCEPT !.data = data, !.at = @ + 1, !.alone = alone]
            /\ file' = file
            /\ ret' = Outcome("dump.get", i, key, "none", r.val)
    /\ UNCHANGED <<settings, KVS, OBJECT_STORE, tables, heap, inst, redis, arg, res, wrote,
                   appVars, up, flight>>

\* history: the keys() of instance i and the get of each of them in the
\* current state, as a mapping in the order of keys(); read whatever the
\* state of the network
RECURSIVE ViewItems(_, _, _)
ViewItems(i, keys, n) ==
    IF n > Len(keys) THEN <<>>
    ELSE <<keys[n],
           IF IsRedis(i) THEN JsonLoads(redis[keys[n]].text).v
           ELSE heap[DictGet(tables[StoreOf(i)], keys[n])]>>
         \o ViewItems(i, keys, n + 1)

ViewNow(i) ==
    PyDict(ViewItems(i, IF IsRedis(i) THEN RemoteKeys(redis) ELSE DictKeys(tables[StoreOf(i)]), 1))

\* the store is replaced by a fresh, empty one of the same kind, right after
\* a dump that ran alone has written its document: a clear() of the in-memory
\* backend, an emptied database of the Redis server. ret.val is history: the
\* view of the store that was dumped
Fresh(i) ==
    /\ task.op = "none"
    /\ inst[i] # NoInst
    /\ ret.op = "dump" /\ ret.who = i /\ ret.exc = "none"
    /\ file.alone /\ file.text = JsonDumps(ret.val)
    /\ IF IsRedis(i)
       THEN /\ redis' = [k \in StrKeys |-> NoEntry]
            /\ UNCHANGED <<OBJECT_STORE, tables, heap>>
       ELSE /\ OBJECT_STORE' = 1 - OBJECT_STORE
            /\ tables' = [d \in DictIds |-> <<>>]
            /\ heap' = Collect(heap, [d \in DictIds |-> <<>>], arg, res)
            /\ redis' = redis
    /\ wrote' = [k \in StrKeys |-> NoWrite]
    /\ ret' = Outcome("fresh", i, PyNone, "none", ViewNow(i))
    /\ UNCHANGED <<settings, KVS, inst, connected, arg, res, appVars, bulkVars, netVars>>

\* with open(filename) as f: data = json.load(f). The entries of the
\* document, or the exception
LoadFile(text) ==
    LET r == JsonLoads(text) IN
    IF ~r.ok THEN [exc |-> "JSONDecodeError", items |-> <<>>]
    ELSE IF r.v.t # "dict" THEN [exc |-> "AttributeError", items |-> <<>>]
    ELSE [exc |-> "none", items |-> r.v.items]

FreeCount(h) == Cardinality({ o \in ObjIds : h[o] = Free })

\* for key, value in data.items(): await self.set(key, value), on the
\* in-memory backend; s holds the heap, the dict and the history of the sets
RECURSIVE SetAll(_, _, _)
SetAll(i, items, s) ==
    IF items = <<>> THEN s
    ELSE LET r == NewRef(s.heap) IN
         SetAll(i, SubSeq(items, 3, Len(items)),
                [heap |-> [s.heap EXCEPT ![r] = items[2]],
                 table |-> DictSet(s.table, items[1], r),
                 wrote |-> [s.wrote EXCEPT ![items[1]] =
                               [done |-> TRUE, by |-> i, ref |-> r, val |-> items[2],
                                age |-> 0, expire |-> NoExpire]]])

\* await kvs.load(filename) on the in-memory backend: one step, as set never
\* suspends; a value of the document passes json.dumps and its key is a str.
\* ret.val of a load that returned is history: the view Fresh recorded, when
\* the load followed it with no step of another task in between
MemLoad(i) ==
    /\ inst[i].cls = "InMemoryKVS"
    /\ task.op = "none"
    /\ file.text # NoText
    /\ file' = NoFile
    /\ LET d == LoadFile(file.text)
           h == Collect(heap, tables, arg, res) IN
       IF d.exc # "none"
       THEN /\ ret' = Outcome("load", i, PyNone, d.exc, PyInt(0))
            /\ UNCHANGED <<tables, heap, wrote>>
       ELSE /\ FreeCount(h) >= Len(d.items) \div 2
            /\ LET s == SetAll(i, d.items, [heap |-> h, table |-> tables[StoreOf(i)], wrote |-> wrote])
                   tabs == [tables EXCEPT ![StoreOf(i)] = s.table] IN
               /\ tables' = tabs
               /\ heap' = Collect(s.heap, tabs, arg, res)
               /\ wrote' = s.wrote
            /\ ret' = Outcome("load", i, PyNone, "none",
                              IF ret.op = "fresh" /\ ret.who = i THEN ret.val ELSE PyNone)
    /\ UNCHANGED <<settings, KVS, OBJECT_STORE, inst, redis, connected, arg, res, appVars,
                   task, netVars>>

\* await kvs.load(filename) on a Redis backend, up to the first set
LoadOpen(i) ==
    /\ IsRedis(i)
    /\ task.op = "none"
    /\ file.text # NoText
    /\ file' = NoFile
    /\ LET d == LoadFile(file.text)
           alone == ret.op = "fresh" /\ ret.who = i IN
       IF d.exc # "none"
       THEN /\ task' = NoTask
            /\ ret' = Outcome("load", i, PyNone, d.exc, PyInt(0))
       ELSE IF d.items = <<>>
       THEN /\ task' = NoTask
            /\ ret' = Outcome("load", i, PyNone, "none", IF alone THEN ret.val ELSE PyNone)
       ELSE /\ task' = [NoTask EXCEPT !.op = "load", !.who = i, !.data = d.items,
                                      !.alone = alone,
                                      !.orig = IF alone THEN ret.val ELSE PyNone]
            /\ ret' = Outcome("load.open", i, PyNone, "none", PyNone)
    /\ UNCHANGED <<settings, KVS, OBJECT_STORE, tables, heap, inst, redis, connected, arg, res,
                   wrote, appVars, netVars>>

\* the bug of a load that undoes its writes when a set fails
LoadSetRollback ==
    /\ task.op = "load"
    /\ connected' = TRUE
    /\ pool' = IF up THEN RedisConnect(pool) ELSE pool
    /\ LET i == task.who
           key == task.data[1]
           value == task.data[2]
           rest == SubSeq(task.data, 3, Len(task.data))
           alone == task.alone /\ ret.op \in LoadSteps IN
       IF ~up
       THEN /\ task' = NoTask
            /\ ret' = Outcome("load", i, key, "ConnectionError", PyInt(task.at))
            /\ redis' = [k \in StrKeys |-> NoEntry]
            /\ wrote' = [k \in StrKeys |-> NoWrite]
       ELSE /\ redis' = RemoteSet(redis, key, JsonDumps(value), inst[i].expire)
            /\ wrote' = [wrote EXCEPT ![key] =
                            [done |-> TRUE, by |-> i, ref |-> 0, val |-> value, age |-> 0,
                             expire |-> inst[i].expire]]
            /\ IF rest = <<>>
               THEN /\ task' = NoTask
                    /\ ret' = Outcome("load", i, PyNone, "none",
                                      IF alone THEN task.orig ELSE PyNone)
               ELSE /\ task' = [task EXCEPT !.data = rest, !.at = @ + 1, !.alone = alone]
                    /\ ret' = Outcome("load.set", i, key, "none", PyNone)
    /\ UNCHANGED <<settings, KVS, OBJECT_STORE, tables, heap, inst, arg, res, appVars, file,
                   up, flight>>

\* the next round of the loop of load on a Redis backend: await
\* self.set(key, value); an exception of set ends load. ret.val of a load
\* that raised is history: the number of entries it had written
LoadSet ==
    /\ task.op = "load"
    /\ connected' = TRUE
    /\ pool' = IF up THEN RedisConnect(pool) ELSE pool
    /\ LET i == task.who
           key == task.data[1]
           value == task.data[2]
           rest == SubSeq(task.data, 3, Len(task.data))
           alone == task.alone /\ ret.op \in LoadSteps IN
       IF ~up
       THEN /\ task' = NoTask
            /\ ret' = Outcome("load", i, key, "ConnectionError", PyInt(task.at))
            /\ UNCHANGED <<redis, wrote>>
       ELSE /\ redis' = RemoteSet(redis, key, JsonDumps(value), inst[i].expire)
            /\ wrote' = [wrote EXCEPT ![key] =
                            [done |-> TRUE, by |-> i, ref |-> 0, val |-> value, age |-> 0,
                             expire |-> inst[i].expire]]
            /\ IF rest = <<>>
               THEN /\ task' = NoTask
                    /\ ret' = Outcome("load", i, PyNone, "none",
                                      IF alone THEN task.orig ELSE PyNone)
               ELSE /\ task' = [task EXCEPT !.data = rest, !.at = @ + 1, !.alone = alone]
                    /\ ret' = Outcome("load.set", i, key, "none", PyNone)
    /\ UNCHANGED <<settings, KVS, OBJECT_STORE, tables, heap, inst, arg, res, appVars, file,
                   up, flight>>

\* ------------------------------------------------------------------------
\* Start-up: the settings and the check that binds KVS
\* ------------------------------------------------------------------------

\* the bug of a swapped entry in the table of classes
KVS_MAP_Swapped == [stub |-> "PersistentRedisKVS", redis_ephemeral |-> "EphemeralRedisKVS",
                    redis |-> "InMemoryKVS"]

\* KVS_MAP of kvs_startup_check: the class of each kind
KVS_MAP == [stub |-> "InMemoryKVS", redis_ephemeral |-> "EphemeralRedisKVS",
            redis |-> "PersistentRedisKVS"]

KindNames == {"stub", "redis_ephemeral", "redis"}

\* the shapes of the settings file: kvs says whether the section is there,
\* hasType whether it has a type field
Config(kvs, hasType, type) ==
    [kvs |-> kvs, hasType |-> hasType, type |-> type, expiry |-> Expiry,
     port |-> NoPort, run_mode |-> NoMode]

Configs ==
    {Config(FALSE, FALSE, ""), Config(TRUE, FALSE, "")}
    \cup { Config(TRUE, TRUE, t) : t \in KindNames \cup {"bogus"} }

\* what one run of kvs_startup_check does with the settings cfg: exc is the
\* exception that leaves the function ("none": it returns True), kinds the
\* kinds the message lists, bind the class assigned to KVS ("": no assignment)
CheckOut(exc, msg, kinds, bind) == [exc |-> exc, msg |-> msg, kinds |-> kinds, bind |-> bind]

\* the bug of a check that refuses to bind KVS a second time
KvsStartupCheckOnce(cfg) ==
    IF KVS # "None" THEN CheckOut("StartupCheck", "KVS already configured", {}, "")
    ELSE IF cfg.kvs /\ cfg.hasType /\ cfg.type \in DOMAIN KVS_MAP
    THEN CheckOut("none", "", {}, KVS_MAP[cfg.type])
    ELSE CheckOut("StartupCheck", "No KVS configured", {}, "")

KvsStartupCheck(cfg) ==
    IF cfg.kvs /\ cfg.hasType /\ cfg.type \in DOMAIN KVS_MAP
    THEN \* the try block runs to its end
         CheckOut("none", "", {}, KVS_MAP[cfg.type])
    ELSE \* KeyError in the try block: the handler
         IF ~cfg.kvs
         THEN CheckOut("StartupCheck", "No KVS configured", {}, "")
         ELSE IF ~cfg.hasType
         THEN \* settings['kvs']['type'] in the elif raises KeyError again
              CheckOut("KeyError", "type", {}, "")
         ELSE IF cfg.type \notin DOMAIN KVS_MAP
         THEN CheckOut("StartupCheck", "Unknown KVS type", DOMAIN KVS_MAP, "")
         ELSE CheckOut("StartupCheck", "KVS incorrectly configured", {}, "")

\* ------------------------------------------------------------------------
\* main.py: create_app and start
\* ------------------------------------------------------------------------

\* the bug of starting the analytics before the checks
CreateAppOrderEager ==
    <<"load_settings", "configure_event_loop", "port", "stream_analytics_init",
      "startup_checks_and_init", "Application", "add_routes", "setup_cors",
      "setup_session_storage", "setup_middlewares">>

\* the statements of create_app, in the order of the source
CreateAppOrder ==
    <<"load_settings", "configure_event_loop", "port", "startup_checks_and_init",
      "stream_analytics_init", "Application", "add_routes", "setup_cors",
      "setup_session_storage", "setup_middlewares">>

\* pc once create_app has returned and run_app serves the application
Running == Len(CreateAppOrder) + 1

\* pc once an exception has ended create_app
Halted == 0

NoCheck == [run |-> FALSE, again |-> FALSE, cfg |-> Config(FALSE, FALSE, ""), out |-> CheckOut("none", "", {}, "")]

\* the statement named stmt is the next one; it runs and control moves on
Advance(stmt) ==
    /\ pc \in 1..Len(CreateAppOrder)
    /\ CreateAppOrder[pc] = stmt
    /\ pc' = pc + 1
    /\ ran' = ran \cup {stmt}

storeVars == <<OBJECT_STORE, tables, heap, inst, redis, connected, arg, res, ret, wrote,
               task, file, up, pool, flight>>

\* settings.load_settings(args.config_file): the file holds any of the shapes
LoadSettings(c) ==
    /\ Advance("load_settings")
    /\ settings' = c
    /\ UNCHANGED <<KVS, storeVars, lastCheck, everOk, mainVars>>

ConfigureEventLoop ==
    /\ Advance("configure_event_loop")
    /\ UNCHANGED <<settings, KVS, storeVars, lastCheck, everOk, mainVars>>

\* the ports a settings file names, the run modes it names, and the ports
\* find_open_port may find open
SettingsPorts == {"8888", "9999"}

RunModes == {"dev", "deploy"}

OpenPorts == {"8000", "8001"}

\* the bug of reading port and runmode from the settings at every call
PortAndRunModeReload ==
    /\ Advance("port")
    /\ runmode' = settings.run_mode
    /\ IF settings.port = NoPort /\ runmode' = "dev"
       THEN port' \in OpenPorts
       ELSE port' = settings.port
    /\ UNCHANGED <<settings, KVS, storeVars, lastCheck, everOk, wd>>

\* the statements that set port and runmode: each is read from the settings
\* while it is None, and a port still None in dev mode is an open port
PortAndRunMode ==
    /\ Advance("port")
    /\ runmode' = IF runmode = NoMode THEN settings.run_mode ELSE runmode
    /\ LET p == IF port = NoPort THEN settings.port ELSE port IN
         IF p = NoPort /\ runmode' = "dev"
         THEN port' \in OpenPorts
         ELSE port' = p
    /\ UNCHANGED <<settings, KVS, storeVars, lastCheck, everOk, wd>>

\* a check that raises ends start-up: nothing after the call runs
ChecksHalt(out) == out.exc # "none"

\* learning_observer.prestartup.startup_checks_and_init(), which runs
\* kvs_startup_check
StartupChecksAndInit ==
    /\ pc \in 1..Len(CreateAppOrder)
    /\ CreateAppOrder[pc] = "startup_checks_and_init"
    /\ LET out == KvsStartupCheck(settings) IN
       /\ KVS' = IF out.bind # "" THEN out.bind ELSE KVS
       /\ lastCheck' = [run |-> TRUE, again |-> lastCheck.run /\ lastCheck.cfg = settings,
                         cfg |-> settings, out |-> out]
       /\ everOk' = (everOk \/ out.exc = "none")
       /\ IF ChecksHalt(out)
          THEN pc' = Halted /\ ran' = ran
          ELSE pc' = pc + 1 /\ ran' = ran \cup {"startup_checks_and_init"}
    /\ UNCHANGED <<settings, storeVars, mainVars>>

StreamAnalyticsInit ==
    /\ Advance("stream_analytics_init")
    /\ UNCHANGED <<settings, KVS, storeVars, lastCheck, everOk, mainVars>>

\* app = aiohttp.web.Application()
NewApplication ==
    /\ Advance("Application")
    /\ UNCHANGED <<settings, KVS, storeVars, lastCheck, everOk, mainVars>>

AddRoutes ==
    /\ Advance("add_routes")
    /\ UNCHANGED <<settings, KVS, storeVars, lastCheck, everOk, mainVars>>

SetupCors ==
    /\ Advance("setup_cors")
    /\ UNCHANGED <<settings, KVS, storeVars, lastCheck, everOk, mainVars>>

SetupSessionStorage ==
    /\ Advance("setup_session_storage")
    /\ UNCHANGED <<settings, KVS, storeVars, lastCheck, everOk, mainVars>>

SetupMiddlewares ==
    /\ Advance("setup_middlewares")
    /\ UNCHANGED <<settings, KVS, storeVars, lastCheck, everOk, mainVars>>

\* start() is called again while the application runs (a soft restart):
\* create_app starts over
Start ==
    /\ pc = Running
    /\ pc' = 1
    /\ ran' = {}
    /\ UNCHANGED <<settings, KVS, storeVars, lastCheck, everOk, mainVars>>

\* ------------------------------------------------------------------------
\* watchdog_observer.py and the watchdog mode of main.py
\* ------------------------------------------------------------------------

\* the keys of the dict restart of main.py: the valid watchdog modes
WatchdogModes == {"restart", "reimport"}

\* the values of args.watchdog that select the watchdog mode
WatchdogArgs == WatchdogModes \cup {"bogus"}

\* the parameters without a default of the three functions main.py hands to
\* the RestartHandler: shutdown(app), restart() or
\* reimport_child_modules(paths=[LOCAL_PATH]), start()
RequiredParams(fn) == IF fn = "shutdown" THEN {"app"} ELSE {}

\* what a run of a handler does: the functions it has run in order, and how
\* it ended ("exec": os.execl has replaced the process)
Handled(calls, exc) == [calls |-> calls, exc |-> exc]

\* RestartHandler.on_any_event: nothing on a directory; otherwise
\* self.shutdown(), self.restart(), self.start(), each called without
\* arguments
OnAnyEvent(isDir, mode) ==
    IF isDir THEN Handled(<<>>, "none")
    ELSE IF RequiredParams("shutdown") # {} THEN Handled(<<>>, "TypeError")
    ELSE IF RequiredParams("restart") # {} THEN Handled(<<"shutdown">>, "TypeError")
    ELSE IF mode = "restart" THEN Handled(<<"shutdown", "restart">>, "exec")
    ELSE IF RequiredParams("start") # {} THEN Handled(<<"shutdown", "restart">>, "TypeError")
    ELSE Handled(<<"shutdown", "restart", "start">>, "none")

\* watchdog(handler): the observer is scheduled with a new
\* LoggingEventHandler, whatever handler is
Watchdog(handler) == "LoggingEventHandler"

\* what the observer does with an event: it calls on_any_event of the
\* handler it was scheduled with; a LoggingEventHandler logs the event
Dispatch(handler, isDir, mode) ==
    IF handler = "RestartHandler" THEN OnAnyEvent(isDir, mode)
    ELSE Handled(<<>>, "none")

\* the watchdog block of main.py, run before the first start() when
\* args.watchdog is not None: an invalid mode exits the process
WatchdogSetup(a) ==
    /\ pc = 1 /\ ran = {} /\ lastCheck = NoCheck
    /\ wd = NoWatch
    /\ IF a \in WatchdogModes
       THEN /\ wd' = [NoWatch EXCEPT !.mode = a, !.handler = Watchdog("RestartHandler")]
            /\ pc' = pc
       ELSE /\ wd' = [NoWatch EXCEPT !.mode = a]
            /\ pc' = Halted
    /\ UNCHANGED <<settings, KVS, storeVars, ran, lastCheck, everOk, port, runmode>>

\* a file system event under the watched path reaches the observer, which
\* runs in its own thread from the set-up on
FsEvent(isDir) ==
    /\ wd.handler # "None"
    /\ pc # Halted
    /\ LET out == Dispatch(wd.handler, isDir, wd.mode) IN
       /\ wd' = [wd EXCEPT !.event = IF isDir THEN "dir" ELSE "file",
                            !.calls = out.calls, !.exc = out.exc]
       /\ IF out.calls # <<>> /\ out.calls[Len(out.calls)] = "start"
          THEN pc' = 1 /\ ran' = {}
          ELSE pc' = pc /\ ran' = ran
    /\ UNCHANGED <<settings, KVS, storeVars, lastCheck, everOk, port, runmode>>

\* ------------------------------------------------------------------------
\* Specification of the store in use: the state once start-up has bound KVS
\* ------------------------------------------------------------------------

Init ==
    /\ settings \in { c \in Configs : c.hasType /\ c.type \in KindNames }
    /\ KVS = KVS_MAP[settings.type]
    /\ OBJECT_STORE = 0
    /\ tables = [d \in DictIds |-> <<>>]
    /\ heap = [o \in ObjIds |-> Free]
    /\ inst = [i \in InstIds |-> NoInst]
    /\ redis = [k \in StrKeys |-> NoEntry]
    /\ connected = FALSE
    /\ arg = 0
    /\ res = 0
    /\ ret = Idle
    /\ wrote = [k \in StrKeys |-> NoWrite]
    /\ pc = Running
    /\ ran = { CreateAppOrder[n] : n \in 1..Len(CreateAppOrder) }
    /\ lastCheck = [run |-> TRUE, again |-> FALSE, cfg |-> settings,
                    out |-> KvsStartupCheck(settings)]
    /\ everOk = TRUE
    /\ task = NoTask
    /\ file = NoFile
    /\ up = TRUE
    /\ pool = NoConn
    /\ flight = [f \in FlightIds |-> NoFlight]
    /\ port = NoPort
    /\ runmode = NoMode
    /\ wd = NoWatch

\* the values the callers of this specification pass to set: an int, a
\* list, a tuple and a set object; with a Redis-backed class, where the value
\* goes through json.dumps, also a dict with a string key and one with an int
\* key
InputVals ==
    {PyInt(5), PyList(<<PyInt(1)>>), PyTuple(<<PyInt(1)>>), PySet(<<PyInt(1)>>)}
    \cup (IF KVS = "InMemoryKVS" THEN {}
          ELSE {PyDict(<<PyStr("a"), PyInt(1)>>), PyDict(<<PyInt(1), PyStr("a")>>)})

\* the keys they use: one string key, and an int as the non-string key

InputKeys == {PyStr("hi"), PyInt(1)}

Next ==
    \/ \E i \in InstIds : NewInst(i)
    \/ \E v \in InputVals : CallerNew(v)
    \/ MutateRes
    \/ MutateArg
    \/ \E i \in InstIds, k \in InputKeys : MemGet(i, k)
    \/ \E i \in InstIds, k \in InputKeys : MemSet(i, k)
    \/ \E i \in InstIds : MemKeys(i)
    \/ \E i \in InstIds : MemClear(i)
    \/ \E i \in InstIds, k \in InputKeys \cap StrKeys : RedisGet(i, k) /\ Direct
    \/ \E i \in InstIds, k \in InputKeys : RedisSet(i, k) /\ Direct
    \/ \E i \in InstIds : RedisKeys(i) /\ Direct
    \/ Tick

Spec == Init /\ [][Next]_vars

\* ------------------------------------------------------------------------
\* Specification of dump and load: one instance, two keys, other tasks that
\* set and clear, the clock of the server and a network that fails
\* ------------------------------------------------------------------------

\* the values the callers set: None and a tuple
BulkVals == {PyNone, PyTuple(<<PyInt(1)>>)}

NextBulk ==
    \/ NewInst(1)
    \/ \E v \in BulkVals : CallerNew(v)
    \/ \E k \in StrKeys : MemSet(1, k)
    \/ MemClear(1)
    \/ \E k \in StrKeys : RedisSet(1, k) /\ Direct
    \/ Tick
    \/ NetDown
    \/ NetUp
    \/ \E toFile \in BOOLEAN : MemDump(1, toFile)
    \/ \E toFile \in BOOLEAN : DumpKeys(1, toFile)
    \/ DumpRead
    \/ Fresh(1)
    \/ MemLoad(1)
    \/ LoadOpen(1)
    \/ LoadSet

SpecBulk == Init /\ [][NextBulk]_vars

\* ------------------------------------------------------------------------
\* Specification of the connection: the operations of two Redis-backed
\* instances as coroutines, a network that fails, a foreign client
\* ------------------------------------------------------------------------

\* the caller builds a value while no set is in progress
NetCallerNew ==
    /\ \A f \in FlightIds : flight[f].op # "set"
    /\ CallerNew(PyInt(5))

NextNet ==
    \/ \E i \in InstIds : NewInst(i)
    \/ NetCallerNew
    \/ \E f \in FlightIds, op \in {"get", "set", "keys"} : OpCall(f, op, f, PyStr("hi"))
    \/ \E f \in FlightIds : ConnectDone(f)
    \/ \E f \in FlightIds : OpCommand(f)
    \/ NetDown
    \/ NetUp
    \/ ForeignSet(PyStr("hi"))

SpecNet == Init /\ [][NextNet]_vars

\* ------------------------------------------------------------------------
\* Specification of keys and clear: two instances, two string keys and an
\* int key, values that set accepts and rejects
\* ------------------------------------------------------------------------

\* the values the callers set: an int, and a set object that set rejects
KeysVals == {PyInt(5), PySet(<<PyInt(1)>>)}

NextKeys ==
    \/ \E i \in InstIds : NewInst(i)
    \/ \E v \in KeysVals : CallerNew(v)
    \/ \E i \in InstIds, k \in KeyArgs : MemGet(i, k)
    \/ \E i \in InstIds, k \in KeyArgs : MemSet(i, k)
    \/ \E i \in InstIds : MemKeys(i)
    \/ \E i \in InstIds : MemClear(i)
    \/ \E i \in InstIds, k \in StrKeys : RedisGet(i, k) /\ Direct
    \/ \E i \in InstIds, k \in KeyArgs : RedisSet(i, k) /\ Direct
    \/ \E i \in InstIds : RedisKeys(i) /\ Direct
    \/ \E i \in InstIds : RedisClear(i)

SpecKeys == Init /\ [][NextKeys]_vars

\* ------------------------------------------------------------------------
\* Specification of start-up: the process from the first call of start()
\* ------------------------------------------------------------------------

InitStart ==
    /\ settings = Config(FALSE, FALSE, "")
    /\ KVS = "None"
    /\ OBJECT_STORE = 0
    /\ tables = [d \in DictIds |-> <<>>]
    /\ heap = [o \in ObjIds |-> Free]
    /\ inst = [i \in InstIds |-> NoInst]
    /\ redis = [k \in StrKeys |-> NoEntry]
    /\ connected = FALSE
    /\ arg = 0
    /\ res = 0
    /\ ret = Idle
    /\ wrote = [k \in StrKeys |-> NoWrite]
    /\ pc = 1
    /\ ran = {}
    /\ lastCheck = NoCheck
    /\ everOk = FALSE
    /\ task = NoTask
    /\ file = NoFile
    /\ up = TRUE
    /\ pool = NoConn
    /\ flight = [f \in FlightIds |-> NoFlight]
    /\ port = NoPort
    /\ runmode = NoMode
    /\ wd = NoWatch

\* what the handlers of the running application do with the store
Serving ==
    /\ pc = Running
    /\ \/ NewInst(1)
       \/ CallerNew(PyInt(5))
       \/ MemSet(1, PyStr("hi"))
       \/ MemClear(1)

NextStart ==
    \/ \E c \in Configs : LoadSettings(c)
    \/ ConfigureEventLoop
    \/ PortAndRunMode
    \/ StartupChecksAndInit
    \/ StreamAnalyticsInit
    \/ NewApplication
    \/ AddRoutes
    \/ SetupCors
    \/ SetupSessionStorage
    \/ SetupMiddlewares
    \/ Start
    \/ Serving

SpecStart == InitStart /\ [][NextStart]_vars

\* ------------------------------------------------------------------------
\* Specification of port and run mode: start-up with settings files that
\* name a port and a run mode or leave them out, and restarts that reload
\* the file
\* ------------------------------------------------------------------------

\* a settings file with the in-memory store, the port p and the run mode m
ServerConfig(p, m) == [Config(TRUE, TRUE, "stub") EXCEPT !.port = p, !.run_mode = m]

PortConfigs ==
    { ServerConfig(p, m) : p \in SettingsPorts \cup {NoPort}, m \in RunModes \cup {NoMode} }

NextPort ==
    \/ \E c \in PortConfigs : LoadSettings(c)
    \/ ConfigureEventLoop
    \/ PortAndRunMode
    \/ StartupChecksAndInit
    \/ StreamAnalyticsInit
    \/ NewApplication
    \/ AddRoutes
    \/ SetupCors
    \/ SetupSessionStorage
    \/ SetupMiddlewares
    \/ Start

SpecPort == InitStart /\ [][NextPort]_vars

\* ------------------------------------------------------------------------
\* Specification of the watchdog mode: the process from its first
\* statement, with or without the watchdog block, and file system events
\* ------------------------------------------------------------------------

NextWatch ==
    \/ \E a \in WatchdogArgs : WatchdogSetup(a)
    \/ \E isDir \in BOOLEAN : FsEvent(isDir)
    \/ \E c \in Configs : LoadSettings(c)
    \/ ConfigureEventLoop
    \/ PortAndRunMode
    \/ StartupChecksAndInit
    \/ StreamAnalyticsInit
    \/ NewApplication
    \/ AddRoutes
    \/ SetupCors
    \/ SetupSessionStorage
    \/ SetupMiddlewares

SpecWatch == InitStart /\ [][NextWatch]_vars

\* ------------------------------------------------------------------------
\* Properties
\* ------------------------------------------------------------------------

\* Every action writes ret: an operation of the store writes its outcome, any
\* other action writes Idle. A step with ret'.op = "set" is therefore the
\* return of a set, whose value is the object arg; likewise for "get".

MemInsts == { i \in InstIds : inst[i].cls = "InMemoryKVS" }

\* what get(key) and keys() through instance i yield in the current state
ViewGet(i, k) ==
    LET r == DictGet(tables[StoreOf(i)], k) IN IF r = 0 THEN PyNone ELSE heap[r]

ViewKeys(i) == DictKeys(tables[StoreOf(i)])

\* the last set of key k has not been undone by a clear or by its expiry
InForce(k) ==
    /\ wrote[k].done
    /\ wrote[k].expire = NoExpire \/ wrote[k].age < wrote[k].expire

\* C1: round trip. A get(k) that follows a successful set(k, v), with no set
\* on k, clear or expiry in between, returns a value deep-equal to v, on the
\* in-memory and on the Redis-backed backends.
C1_RoundTrip ==
    (ret.op = "get" /\ ret.key \in StrKeys /\ InForce(ret.key))
        => (ret.exc = "none" /\ PyEq(ret.val, wrote[ret.key].val))

\* C2: shared state. All InMemoryKVS instances yield the same get(k) and the
\* same keys(); a get through any instance returns the object last set
\* through any instance since the last clear, and keys() lists the keys set
\* since then.
C2_SharedState ==
    /\ \A i \in MemInsts, j \in MemInsts :
          /\ ViewKeys(i) = ViewKeys(j)
          /\ \A k \in KeyArgs : ViewGet(i, k) = ViewGet(j, k)
    /\ (ret.op = "get" /\ ret.who \in MemInsts /\ ret.key \in StrKeys)
          => IF wrote[ret.key].done THEN PyEq(ret.val, heap[wrote[ret.key].ref])
                                    ELSE ret.val = PyNone
    /\ (ret.op = "keys" /\ ret.who \in MemInsts)
          => { ret.val.items[n] : n \in 1..Len(ret.val.items) }
                = { k \in StrKeys : wrote[k].done }

\* a get through one instance has returned what another instance set, after
\* an earlier clear
C2_Witness ==
    /\ ret.op = "get" /\ ret.who \in MemInsts /\ ret.key \in StrKeys
    /\ wrote[ret.key].done /\ wrote[ret.key].by # ret.who
    /\ ret.val = PyList(<<PyInt(1)>>)
    /\ OBJECT_STORE = 1

\* C3: deep copy on read. A change the caller makes to the object a get
\* returned changes no result of a later get; every get returns a value equal
\* to the stored one and leaves the store as it is, so two gets with no set or
\* clear between them agree; the returned object is never the stored object
\* unless it is immutable.
C3_DeepCopyOnRead ==
    /\ [](res # 0 /\ ~Immutable(heap[res]) => res \notin Refs(tables))
    /\ [][/\ MutateRes =>
                \A i \in MemInsts, k \in KeyArgs : ViewGet(i, k)' = ViewGet(i, k)
          /\ (ret'.op = "get" /\ ret'.who \in MemInsts) =>
                /\ PyEq(ret'.val, ViewGet(ret'.who, ret'.key))
                /\ \A i \in MemInsts, k \in KeyArgs : ViewGet(i, k)' = ViewGet(i, k)]_vars

\* the caller has changed the list a get returned while the key is stored
C3_Witness ==
    /\ MemInsts # {}
    /\ res # 0
    /\ DictGet(tables[OBJECT_STORE], PyStr("hi")) # 0
    /\ heap[DictGet(tables[OBJECT_STORE], PyStr("hi"))] = PyList(<<PyInt(1)>>)
    /\ heap[res] = PyList(<<PyInt(1), PyInt(2)>>)
    /\ ret = Idle

\* C4: rejected writes. set with a key that is not a string, or with a value
\* json.dumps does not accept, raises, and leaves the in-memory table, the
\* stored objects and the remote store as they were.
C4_RejectedWrites ==
    [][(ret'.op = "set" /\ (ret'.key.t # "str" \/ ~Serializable(heap[arg])))
          => /\ ret'.exc = (IF ~Serializable(heap[arg]) THEN "TypeError" ELSE "AssertionError")
             /\ OBJECT_STORE' = OBJECT_STORE
             /\ tables' = tables
             /\ heap' = heap
             /\ redis' = redis
             /\ wrote' = wrote]_vars

\* a set with a non-string key was rejected while the store held an entry
C4_Witness ==
    /\ ret.op = "set" /\ ret.exc = "AssertionError" /\ ret.key = PyInt(1)
    /\ wrote[PyStr("hi")].done

\* C5: a get of a key with no set since the start or the last clear returns
\* None, raises nothing and leaves the store as it is, on both backends.
C5_AbsentGet ==
    [][(ret'.op = "get" /\ (ret'.key \notin StrKeys \/ ~wrote[ret'.key].done))
          => /\ ret'.exc = "none"
             /\ ret'.val = PyNone
             /\ res' = 0
             /\ OBJECT_STORE' = OBJECT_STORE
             /\ tables' = tables
             /\ redis' = redis]_vars

\* a get of a key that was never set has returned
C5_Witness ==
    /\ ret.op = "get" /\ ret.key \in StrKeys /\ ~wrote[ret.key].done
    /\ ret.exc = "none" /\ ret.val = PyNone

\* C10: ephemeral expiry. After set(k, v) through the ephemeral backend,
\* get(k) returns v while less than the expiry has elapsed since the set, and
\* None once the expiry has elapsed, unless k was set again.
C10_EphemeralExpiry ==
    (ret.op = "get" /\ ret.key \in StrKeys /\ wrote[ret.key].done
       /\ wrote[ret.key].expire # NoExpire)
        => IF wrote[ret.key].age < wrote[ret.key].expire
           THEN ret.exc = "none" /\ PyEq(ret.val, wrote[ret.key].val)
           ELSE ret.exc = "none" /\ ret.val = PyNone

\* the timing of C10 with the value compared after its trip through JSON:
\* before the expiry the get returns json.loads(json.dumps(v)), which is v
\* when v is a JSON value; from the expiry on it returns None
ExpiryTiming ==
    (ret.op = "get" /\ ret.key \in StrKeys /\ wrote[ret.key].done
       /\ wrote[ret.key].expire # NoExpire)
        => IF wrote[ret.key].age < wrote[ret.key].expire
           THEN /\ ret.exc = "none"
                /\ ret.val = JsonLoads(JsonDumps(wrote[ret.key].val)).v
                /\ IsJsonValue(wrote[ret.key].val) => PyEq(ret.val, wrote[ret.key].val)
           ELSE ret.exc = "none" /\ ret.val = PyNone

\* C6: start-up validator, failure. With no kvs section, a kvs section
\* without type, or a type that is not a known kind, kvs_startup_check raises
\* StartupCheck and nothing else; for an unknown type it lists the kinds.
C6_ValidatorFailure ==
    (lastCheck.run
       /\ ~(lastCheck.cfg.kvs /\ lastCheck.cfg.hasType /\ lastCheck.cfg.type \in KindNames))
        => /\ lastCheck.out.exc = "StartupCheck"
           /\ (lastCheck.cfg.kvs /\ lastCheck.cfg.hasType) => lastCheck.out.kinds = KindNames

\* the class each kind is to select
ExpectedClass(type) ==
    CASE type = "stub" -> "InMemoryKVS"
      [] type = "redis_ephemeral" -> "EphemeralRedisKVS"
      [] OTHER -> "PersistentRedisKVS"

\* C7: start-up validator, success. With a known kind the check returns True
\* and KVS is the class of that kind; KVS is None until a check has succeeded.
C7_ValidatorSuccess ==
    /\ (lastCheck.run /\ lastCheck.cfg.kvs /\ lastCheck.cfg.hasType
          /\ lastCheck.cfg.type \in KindNames)
          => (lastCheck.out.exc = "none" /\ KVS = ExpectedClass(lastCheck.cfg.type))
    /\ ~everOk => KVS = "None"

\* the check has bound the ephemeral class
C7_Witness ==
    /\ lastCheck.run /\ lastCheck.cfg.type = "redis_ephemeral"
    /\ KVS = "EphemeralRedisKVS"
    /\ pc = 5

LaterSteps ==
    {"stream_analytics_init", "Application", "add_routes", "setup_cors",
     "setup_session_storage", "setup_middlewares"}

\* C8: start-up ordering. In a call of create_app no statement after the
\* checks has run unless the checks have run and succeeded on the settings of
\* this call; once a check has failed none of them runs and the call does not
\* return an application.
C8_StartupOrdering ==
    /\ (ran \cap LaterSteps # {} \/ pc = Running)
          => /\ "startup_checks_and_init" \in ran
             /\ lastCheck.run /\ lastCheck.out.exc = "none" /\ lastCheck.cfg = settings
    /\ pc = Halted => (ran \cap LaterSteps = {} /\ lastCheck.out.exc # "none")

\* a check failed in a call of create_app made by a restart
C8_Witness ==
    /\ pc = Halted
    /\ everOk
    /\ lastCheck.out.exc = "StartupCheck"

\* C9: idempotence of the check. A run of kvs_startup_check on the settings of
\* the run before it ends as that run did, leaves KVS as it was and leaves the
\* in-memory store as it was.
C9_CheckIdempotent ==
    [][(StartupChecksAndInit /\ lastCheck.run /\ lastCheck.cfg = settings)
          => /\ lastCheck'.out = lastCheck.out
             /\ KVS' = KVS
             /\ OBJECT_STORE' = OBJECT_STORE
             /\ tables' = tables
             /\ heap' = heap]_vars

\* the check has run again on the same settings while the store held an entry
C9_Witness ==
    /\ lastCheck.again
    /\ DictGet(tables[OBJECT_STORE], PyStr("hi")) # 0
    /\ pc = 5

\* two views agree: the same keys in the same order, equal values
SameView(a, b) ==
    /\ Len(a.items) = Len(b.items)
    /\ \A n \in 1..Len(a.items) :
          IF n % 2 = 1 THEN a.items[n] = b.items[n] ELSE PyEq(a.items[n], b.items[n])

\* C11: bulk round trip. A dump that runs alone, then a load of the document
\* it wrote into a fresh store of the same kind, with no step of another task
\* in between, leaves a store whose keys() and whose get of every key equal
\* those of the store that was dumped; a key stored with None is kept.
C11_BulkRoundTrip ==
    (ret.op = "load" /\ ret.exc = "none" /\ ret.val # PyNone)
        => SameView(ViewNow(ret.who), ret.val)

\* the round trip of C11 with the values compared after their trip through
\* the JSON document: the keys are those of the store that was dumped, and
\* each value is json.loads(json.dumps(v)), which is v when v is a JSON value
BulkRoundTripJson ==
    (ret.op = "load" /\ ret.exc = "none" /\ ret.val # PyNone)
        => LET now == ViewNow(ret.who).items
               was == ret.val.items IN
           /\ Len(now) = Len(was)
           /\ \A n \in 1..Len(was) :
                 IF n % 2 = 1 THEN now[n] = was[n]
                 ELSE /\ now[n] = JsonLoads(JsonDumps(was[n])).v
                      /\ IsJsonValue(was[n]) => PyEq(now[n], was[n])

\* C12: partial bulk load. When a set of load fails, the exception of the
\* set ends load and reaches its caller; the entries load wrote before stay,
\* the failing entry and the entries after it are not written, and nothing
\* is undone. Until then each round of the loop writes its own entry only.
C12_PartialLoad ==
    [][/\ (task.op = "load" /\ ret'.op = "load" /\ ret'.exc # "none")
            => /\ ret'.exc = "ConnectionError"
               /\ ret'.key = task.data[1]
               /\ ret'.val = PyInt(task.at)
               /\ task' = NoTask
               /\ redis' = redis
               /\ tables' = tables
               /\ wrote' = wrote
       /\ (task.op = "load" /\ ret'.op \in {"load", "load.set"} /\ ret'.exc = "none")
            => /\ redis' = RemoteSet(redis, task.data[1], JsonDumps(task.data[2]),
                                     inst[task.who].expire)
               /\ ret'.op = "load.set" => (task'.data = SubSeq(task.data, 3, Len(task.data))
                                           /\ task'.at = task.at + 1)
               /\ ret'.op = "load" => Len(task.data) = 2
       /\ (task.op = "none" /\ ret'.op \notin {"load", "load.open"})
            => task'.op # "load"]_vars

\* a load of a document of two entries has failed at its second set: the
\* first entry is in the store, the second is not
C12_Witness ==
    /\ ret.op = "load" /\ ret.exc = "ConnectionError"
    /\ ret.key = PyStr("yo") /\ ret.val = PyInt(1)
    /\ redis[PyStr("hi")] # NoEntry
    /\ redis[PyStr("yo")] = NoEntry
    /\ task = NoTask

\* the keys of a mapping, in its order
MapKeys(items) == [n \in 1..(Len(items) \div 2) |-> items[2 * n - 1]]

\* what a get of key k through instance i returns in the current state
ReadNow(i, k) ==
    IF IsRedis(i)
    THEN IF redis[k] = NoEntry THEN PyNone ELSE JsonLoads(redis[k].text).v
    ELSE ViewGet(i, k)

\* C17: dump under interleaving. dump is a sequence of steps between which
\* other tasks run: the keys of the mapping it returns are the keys keys()
\* returned when dump called it, and each is mapped to what the get of that
\* key returned when dump made it, None when the key was gone by then. Each
\* set, and each read of dump, is one step on the entry of one key.
C17_DumpInterleaved ==
    /\ [](task.op = "dump" => MapKeys(task.data) = SubSeq(task.keys, 1, task.at))
    /\ [][/\ ret'.op = "dump.keys"
               => /\ task'.keys = MapKeys(ViewNow(ret'.who).items)
                  /\ task'.data = <<>>
          /\ (task.op = "none" /\ ret'.op = "dump" /\ ret'.exc = "none")
               => ret'.val = ViewNow(ret'.who)
          /\ (task.op = "dump" /\ ret'.op \in {"dump", "dump.get"} /\ ret'.exc = "none")
               => LET key == task.keys[task.at + 1]
                      data == IF ret'.op = "dump" THEN ret'.val.items ELSE task'.data IN
                  /\ data = task.data \o <<key, ReadNow(task.who, key)>>
                  /\ redis' = redis
                  /\ ret'.op = "dump.get" => task'.keys = task.keys
                  /\ ret'.op = "dump" => MapKeys(data) = task.keys
          /\ (ret'.op = "set" /\ ret'.exc = "none" /\ IsRedis(ret'.who))
               => redis' = RemoteSet(redis, ret'.key, JsonDumps(heap[arg]),
                                     inst[ret'.who].expire)]_vars

\* a dump has returned a mapping that was never the content of the store: the
\* key yo, stored with a tuple, expired between the reads of dump and is
\* mapped to None next to the value of hi
C17_Witness ==
    /\ ret.op = "dump" /\ ret.exc = "none"
    /\ ret.val = PyDict(<<PyStr("hi"), PyList(<<PyInt(1)>>), PyStr("yo"), PyNone>>)
    /\ wrote[PyStr("yo")].val = PyTuple(<<PyInt(1)>>)
    /\ redis[PyStr("yo")] = NoEntry
    /\ redis[PyStr("hi")] # NoEntry

\* C13: lazy connection. The construction of a Redis-backed instance calls
\* no connect and touches no connection and no remote data; the first thing
\* a get, set or keys does is to call connect, and a flight that is at its
\* remote command has called it.
C13_LazyConnection ==
    /\ [](\A f \in FlightIds : flight[f].at = "command" => connected)
    /\ [][/\ inst' # inst
               => (connected' = connected /\ pool' = pool /\ redis' = redis /\ flight' = flight)
          /\ \A f \in FlightIds :
                /\ (flight[f].at = "idle" /\ flight'[f].at # "idle")
                      => (flight'[f].at = "connect" /\ connected')
                /\ (flight[f].at = "connect" /\ flight'[f] # flight[f])
                      => (redis' = redis /\ wrote' = wrote)
                /\ flight'[f].at = "command" => flight[f].at \in {"connect", "command"}]_vars

\* a set through the second instance has written its entry: the instance was
\* constructed, its set called connect, and the command followed
C13_Witness ==
    /\ ret.op = "set" /\ ret.who = 2 /\ ret.exc = "none"
    /\ redis[PyStr("hi")] # NoEntry
    /\ connected
    /\ flight[2] = NoFlight

\* C14: concurrent connect. However many flights are suspended in connect at
\* once, the process makes one connection at most, every flight that is past
\* its connect holds that connection, and a connect that finds a connection
\* leaves it as it is.
C14_ConcurrentConnect ==
    /\ [](pool.made <= 1)
    /\ [](\A f \in FlightIds :
             flight[f].at = "command" => (pool.handle # 0 /\ flight[f].conn = pool.handle))
    /\ [][pool.handle # 0 => pool' = pool]_vars

\* two flights were suspended in connect at the same time and are both past
\* it, on the one connection
C14_Witness ==
    /\ flight[1].at = "command" /\ flight[2].at = "command"
    /\ flight[1].conc \/ flight[2].conc
    /\ flight[1].conn = flight[2].conn
    /\ pool.made = 1

\* C18: remote errors propagate. A get, set or keys that meets an
\* unreachable server, in its connect or at its remote command, ends with
\* the connection error in the same step: it changes no remote data and
\* makes no further step. A get that finds a stored string that is not JSON
\* ends with the decoding error, not with None or a value.
C18_RemoteErrors ==
    [][/\ (ret'.op \in {"get", "set", "keys"} /\ ret'.exc = "ConnectionError")
            => /\ ~up
               /\ redis' = redis
               /\ wrote' = wrote
               /\ \E f \in FlightIds :
                     flight[f].op = ret'.op /\ flight[f].at # "idle" /\ flight'[f] = NoFlight
       /\ \A f \in FlightIds :
             /\ (flight[f].at = "connect" /\ flight'[f] # flight[f] /\ ~up /\ pool.handle = 0)
                   => (ret'.op = flight[f].op /\ ret'.exc = "ConnectionError")
             /\ (flight[f].at = "command" /\ flight'[f] # flight[f] /\ ~up
                   /\ (flight[f].op = "set" => Serializable(heap[arg]) /\ flight[f].key.t = "str"))
                   => (ret'.op = flight[f].op /\ ret'.exc = "ConnectionError")
             /\ (flight[f].at = "command" /\ flight'[f] # flight[f] /\ up
                   /\ flight[f].op = "get" /\ redis[flight[f].key] # NoEntry
                   /\ ~JsonLoads(redis[flight[f].key].text).ok)
                   => (ret'.op = "get" /\ ret'.exc = "JSONDecodeError" /\ redis' = redis)]_vars

\* a get that had connected met an unreachable server at its remote command
C18_Witness ==
    /\ ret.op = "get" /\ ret.exc = "ConnectionError"
    /\ pool.handle # 0
    /\ ~up
    /\ redis[PyStr("hi")] # NoEntry

\* the keys no set has succeeded on since the start or the last clear
NoSetSince == \A k \in StrKeys : ~wrote[k].done

\* C15: clear. A clear through any InMemoryKVS instance leaves keys() empty
\* and every get absent through every InMemoryKVS instance, those
\* constructed before it included, and they stay so until a set succeeds;
\* on an instance of a Redis-backed class clear does not exist: the call
\* raises and the remote data stay.
C15_Clear ==
    /\ [](NoSetSince => \A i \in MemInsts :
                           /\ ViewKeys(i) = <<>>
                           /\ \A k \in KeyArgs : ViewGet(i, k) = PyNone)
    /\ [][/\ (ret'.op = "clear" /\ ret'.exc = "none")
               => /\ inst[ret'.who].cls = "InMemoryKVS"
                  /\ NoSetSince'
                  /\ tables'[OBJECT_STORE'] = <<>>
          /\ (ret'.op = "clear" /\ IsRedis(ret'.who))
               => (ret'.exc = "AttributeError" /\ redis' = redis /\ wrote' = wrote)
          /\ (ret'.op = "keys" /\ ret'.who \in MemInsts /\ NoSetSince)
               => ret'.val = PyList(<<>>)
          /\ (ret'.op = "get" /\ ret'.who \in MemInsts /\ NoSetSince)
               => ret'.val = PyNone]_vars

\* a clear through the second instance has emptied the store the first
\* instance was constructed on, which had held the value a get returned
C15_Witness ==
    /\ ret.op = "clear" /\ ret.who = 2 /\ ret.exc = "none"
    /\ inst[1].born = 0 /\ OBJECT_STORE = 1
    /\ res # 0 /\ heap[res] = PyInt(5)
    /\ ViewKeys(1) = <<>>

\* C16: keys. On the in-memory backend keys() is the list of the keys
\* present: every key a set has succeeded on since the start or the last
\* clear, each once, and no key of a set that was rejected.
C16_Keys ==
    /\ [](\A i \in MemInsts :
             /\ \A m, n \in 1..Len(ViewKeys(i)) : ViewKeys(i)[m] = ViewKeys(i)[n] => m = n
             /\ { ViewKeys(i)[n] : n \in 1..Len(ViewKeys(i)) } = { k \in StrKeys : wrote[k].done })
    /\ [][/\ (ret'.op = "keys" /\ ret'.who \in MemInsts)
               => (ret'.exc = "none" /\ ret'.val = PyList(ViewKeys(ret'.who)))
          /\ (ret'.op = "set" /\ ret'.who \in MemInsts /\ ret'.exc # "none")
               => tables' = tables]_vars

\* keys() has returned two keys in the order of their sets, made after a
\* clear, while the caller holds a value whose set is rejected
C16_Witness ==
    /\ ret.op = "keys" /\ ret.who \in MemInsts
    /\ ret.val = PyList(<<PyStr("yo"), PyStr("hi")>>)
    /\ OBJECT_STORE = 1
    /\ arg # 0 /\ heap[arg] = PySet(<<PyInt(1)>>)

\* C20: port and run mode on a restart. A port that is not None and a run
\* mode that is not None stay as they are in every step, whatever settings
\* a later call of create_app has loaded; port changes only from None, to
\* the port of the settings, or to an open port when the settings name none
\* and the run mode is dev.
C20_PortKept ==
    [][/\ port # NoPort => port' = port
       /\ runmode # NoMode => runmode' = runmode
       /\ port' # port =>
            \/ port' = settings.port
            \/ /\ port' \in OpenPorts
               /\ settings.port = NoPort
               /\ runmode' = "dev"
       /\ runmode' # runmode => runmode' = settings.run_mode]_vars

\* a later call of create_app has run its port statements on settings that
\* name another port and another run mode, and both values are the old ones
C20_Witness ==
    /\ "port" \in ran
    /\ port \in OpenPorts /\ runmode = "dev"
    /\ settings.port \in SettingsPorts
    /\ settings.run_mode = "deploy"

\* C19: watchdog restart. In watchdog mode with a valid mode, the last
\* event on a non-directory has made the RestartHandler run shutdown, then
\* restart, then start, and the last event on a directory none of them.
C19_WatchdogRestart ==
    wd.mode \in WatchdogModes =>
        /\ wd.event = "file" => wd.calls = <<"shutdown", "restart", "start">>
        /\ wd.event = "dir" => wd.calls = <<>>

\* the in-memory views of every key change in this step
StoreChanges == \E i \in MemInsts, k \in KeyArgs : ViewGet(i, k)' # ViewGet(i, k)

\* C21: write-side isolation. On the in-memory backend what the gets return
\* changes only in a step of set or clear, and a get of a key returns a value
\* equal to the value the object passed to the last set of that key had at
\* the time of the set, whatever the caller has done to the object since.
C21_WriteIsolation ==
    [][/\ StoreChanges => ret'.op \in {"set", "clear"}
       /\ (ret'.op = "get" /\ ret'.who \in MemInsts /\ ret'.key \in StrKeys
             /\ wrote[ret'.key].done)
            => PyEq(ret'.val, wrote[ret'.key].val)]_vars

\* the part of C21 that the code keeps: apart from the steps in which the
\* caller changes the object it passed to set, the views change only in a
\* step of set or clear
WriteIsolationApartFromAlias ==
    [][(StoreChanges /\ ~MutateArg) => ret'.op \in {"set", "clear"}]_vars

====
